---- MODULE Spec2Model ----
(***************************************************************************)
(* Model of the feed aggregator of src/src/main.js: the Store `feeds` (a   *)
(* JavaScript Map of feeds, each holding a Map of articles), the snapshot  *)
(* file config.output, and updateFeeds: download, parse and remap to the   *)
(* internal format, merge into the Store, serialize.                       *)
(*                                                                         *)
(* A JavaScript Map is a sequence of <<key, value>> entries in insertion   *)
(* order.  `undefined` is the string UNDEF, an Invalid Date is NaN.  A     *)
(* parsed XML element is UNDEF when absent and its "#text" otherwise.      *)
(***************************************************************************)
EXTENDS Integers, Sequences, FiniteSets, TLC

\* ------------------------------------------------------------------ bounds
MaxTime == 2
MaxCycles == 2

\* ------------------------------------------------------- JavaScript values
UNDEF == "<undefined>"
NaN == 0 - 1
NULL == 0 - 2

\* new Date(text): the instant a date text denotes, NaN when it denotes none.
NewDate(text) ==
    CASE text = "Thu, 01 Jan 1970 00:00:01 GMT" -> 1
      [] text = "Thu, 01 Jan 1970 00:00:02 GMT" -> 2
      [] text = "1970-01-01T00:00:01Z" -> 1
      [] text = "1970-01-01T00:00:02Z" -> 2
      [] text = "1970-01-01T01:00:02+01:00" -> 2
      [] OTHER -> NaN

\* a > b on two Dates: false as soon as one of them is an Invalid Date.
DateGreater(a, b) == a # NaN /\ b # NaN /\ a > b

\* JSON.stringify of a Date: its ISO instant, null for an Invalid Date.
DateToJSON(d) == IF d = NaN THEN NULL ELSE d

\* new Date(value) on a value read back from JSON: null is the epoch.
DateFromJSON(j) == IF j = NULL THEN 0 ELSE j

\* Whether new URL(text) succeeds; it throws a TypeError otherwise.
IsURL(text) == text \in {"http://a/", "HTTP://A/", "http://a/1", "HTTP://A/1",
                         "http://a/2", "http://a/3", "http://a/atom",
                         "http://u1/", "http://u2/"}

\* (new URL(text)).href: scheme and host in lower case.
Href(text) ==
    CASE text = "HTTP://A/" -> "http://a/"
      [] text = "HTTP://A/1" -> "http://a/1"
      [] OTHER -> text

\* sanitizeHtml(text): the text with its markup stripped.
sanitizeHtml(text) ==
    CASE text = "<b>News</b>" -> "News"
      [] text = "<script>x</script>First again" -> "First again"
      [] OTHER -> text

\* ------------------------------------------------------------- Map methods
MapHas(m, k) == \E i \in 1..Len(m) : m[i][1] = k

\* The entry of key k: the first one, should the key occur more than once.
MapIndex(m, k) == CHOOSE i \in 1..Len(m) : m[i][1] = k /\ \A j \in 1..(i - 1) : m[j][1] # k

MapGet(m, k) == m[MapIndex(m, k)][2]

MapSetDuplicating(m, k, v) == Append(m, <<k, v>>)

MapSet(m, k, v) ==
    IF MapHas(m, k) THEN [m EXCEPT ![MapIndex(m, k)] = <<k, v>>]
    ELSE Append(m, <<k, v>>)

\* ------------------------------------------------- the parsed XML documents
\* A parsed element is a record of its child elements; a child that the
\* document lacks is no field of the record.
Has(e, f) == f \in DOMAIN e

\* if (e.f && e.f["#text"]): the child exists and its text is not empty.
HasText(e, f) == Has(e, f) /\ e[f] # ""

\* ------------------------------------------------ RSS items (lines 128-164)
\* new URL(...) throws on the item's link, or on its guid when it has no link.
RssItemThrows(item) ==
    IF Has(item, "link") THEN ~IsURL(item.link)
    ELSE IF Has(item, "guid") THEN ~IsURL(item.guid)
    ELSE FALSE

RssItemDate(item, now) ==
    IF HasText(item, "pubDate") THEN NewDate(item.pubDate) ELSE now

RssItemId(item) ==
    IF Has(item, "guid") THEN item.guid
    ELSE IF Has(item, "link") THEN item.link
    ELSE UNDEF

RssItemLink(item) ==
    IF Has(item, "link") THEN Href(item.link)
    ELSE IF Has(item, "guid") THEN Href(item.guid)
    ELSE UNDEF

RssArticle(item, now) ==
    [title     |-> IF Has(item, "title") THEN sanitizeHtml(item.title) ELSE UNDEF,
     link      |-> RssItemLink(item),
     id        |-> RssItemId(item),
     published |-> RssItemDate(item, now),
     updated   |-> RssItemDate(item, now)]

\* The feed before anything is filled out (lines 99-106).
DefaultFeed(now) ==
    [title |-> UNDEF, description |-> UNDEF, link |-> UNDEF, id |-> UNDEF,
     articles |-> <<>>, updated |-> now]

\* --------------------------------------------- RSS channel (lines 111-170)
RssFeedId(rss, url) ==
    IF HasText(rss, "link") THEN Href(rss.link) ELSE url

RssFeedUpdated(rss, now) ==
    IF Has(rss, "lastBuildDate") THEN NewDate(rss.lastBuildDate)
    ELSE IF Has(rss, "pubDate") THEN NewDate(rss.pubDate)
    ELSE now

\* The feed as the try block leaves it: a throw keeps what was assigned
\* before it and skips the rest.
ParseRss(rss, url, now) ==
    LET named == [DefaultFeed(now) EXCEPT
                    !.title = IF Has(rss, "title") THEN sanitizeHtml(rss.title) ELSE UNDEF,
                    !.description = IF Has(rss, "description")
                                    THEN sanitizeHtml(rss.description) ELSE UNDEF]
        linked == [named EXCEPT !.link = RssFeedId(rss, url), !.id = RssFeedId(rss, url)]
    IN  IF HasText(rss, "link") /\ ~IsURL(rss.link) THEN named
        ELSE IF ~Has(rss, "item") THEN linked
        ELSE IF \E i \in 1..Len(rss.item) : RssItemThrows(rss.item[i]) THEN linked
        ELSE [linked EXCEPT
                !.articles = [i \in 1..Len(rss.item) |-> RssArticle(rss.item[i], now)],
                !.updated = RssFeedUpdated(rss, now)]

\* ------------------------------------------- Atom entries (lines 195-233)
\* entry.link.find(rel === "alternate") ?? entry.link[0]
AtomEntryLinkNode(entry) ==
    IF \E i \in 1..Len(entry.link) : entry.link[i].rel = "alternate"
    THEN entry.link[CHOOSE i \in 1..Len(entry.link) :
                       /\ entry.link[i].rel = "alternate"
                       /\ \A j \in 1..(i - 1) : entry.link[j].rel # "alternate"]
    ELSE entry.link[1]

\* link_node["@_href"] ?? link_node["#text"]
LinkTarget(node) ==
    IF Has(node, "href") THEN node.href
    ELSE IF Has(node, "text") THEN node.text
    ELSE UNDEF

AtomEntryThrows(entry) ==
    \/ Has(entry, "link") /\ ~IsURL(LinkTarget(AtomEntryLinkNode(entry)))
    \/ Has(entry, "published") /\ ~Has(entry, "updated")

AtomEntryPublished(entry, now) ==
    IF Has(entry, "published") THEN NewDate(entry.published)
    ELSE IF Has(entry, "updated") THEN NewDate(entry.updated)
    ELSE now

AtomEntryUpdated(entry, now) ==
    IF Has(entry, "published") THEN NewDate(entry.updated) ELSE now

AtomArticle(entry, now) ==
    [title     |-> IF Has(entry, "title") THEN sanitizeHtml(entry.title) ELSE UNDEF,
     link      |-> IF Has(entry, "link")
                   THEN Href(LinkTarget(AtomEntryLinkNode(entry))) ELSE UNDEF,
     id        |-> IF Has(entry, "id") THEN entry.id ELSE UNDEF,
     published |-> AtomEntryPublished(entry, now),
     updated   |-> AtomEntryUpdated(entry, now)]

\* ---------------------------------------------- Atom feed (lines 171-238)
\* "feed.link" is no array path: one link element parses to an object, which
\* has no find; several parse to an array.
AtomLinkIsArray(atom) == Len(atom.link) > 1

AtomHasSelf(atom) == \E i \in 1..Len(atom.link) : atom.link[i].rel = "self"

\* atom.link.find(rel === "self")["@_href"] ?? url
AtomSelfHref(atom, url) ==
    LET self == atom.link[CHOOSE i \in 1..Len(atom.link) :
                             /\ atom.link[i].rel = "self"
                             /\ \A j \in 1..(i - 1) : atom.link[j].rel # "self"]
    IN  IF Has(self, "href") THEN self.href ELSE url

AtomLinkThrows(atom, url) ==
    /\ Has(atom, "link")
    /\ \/ ~AtomLinkIsArray(atom)
       \/ ~AtomHasSelf(atom)
       \/ ~IsURL(AtomSelfHref(atom, url))

AtomFeedLink(atom, url) ==
    IF Has(atom, "link") THEN Href(AtomSelfHref(atom, url)) ELSE url

ParseAtom(atom, url, now) ==
    LET named == [DefaultFeed(now) EXCEPT
                    !.title = IF Has(atom, "title") THEN sanitizeHtml(atom.title) ELSE UNDEF,
                    !.description = IF Has(atom, "subtitle")
                                    THEN sanitizeHtml(atom.subtitle) ELSE UNDEF]
        linked == [named EXCEPT
                    !.link = AtomFeedLink(atom, url),
                    !.id = IF Has(atom, "id") THEN atom.id ELSE UNDEF]
    IN  IF AtomLinkThrows(atom, url) THEN named
        ELSE IF ~Has(atom, "entry") THEN linked
        ELSE IF \E i \in 1..Len(atom.entry) : AtomEntryThrows(atom.entry[i]) THEN linked
        ELSE [linked EXCEPT
                !.articles = [i \in 1..Len(atom.entry) |-> AtomArticle(atom.entry[i], now)],
                !.updated = IF HasText(atom, "updated") THEN NewDate(atom.updated) ELSE now]

\* ------------------------------------------------------ the configuration
\* config.urls
urls == <<"http://u1/", "http://u2/">>

\* The documents the urls may answer with, as xmlParser.parse returns them.
RssNews ==
    [rss |-> [channel |->
        [title |-> "<b>News</b>", description |-> "all of it", link |-> "HTTP://A/",
         lastBuildDate |-> "Thu, 01 Jan 1970 00:00:02 GMT",
         item |-> << [title |-> "First", link |-> "HTTP://A/1", guid |-> "http://a/1",
                      pubDate |-> "Thu, 01 Jan 1970 00:00:01 GMT"],
                     [title |-> "Second", link |-> "http://a/2"] >>]]]

RssNewsLater ==
    [rss |-> [channel |->
        [title |-> "Olds", link |-> "http://a/",
         item |-> << [title |-> "<script>x</script>First again", link |-> "http://a/1",
                      guid |-> "http://a/1",
                      pubDate |-> "Thu, 01 Jan 1970 00:00:02 GMT"],
                     [title |-> "First once more", guid |-> "http://a/1",
                      pubDate |-> "Thu, 01 Jan 1970 00:00:02 GMT"],
                     [title |-> "Third", link |-> "http://a/3", pubDate |-> "soon"] >>]]]

RssBadItem ==
    [rss |-> [channel |->
        [title |-> "Bad", link |-> "http://a/",
         item |-> << [title |-> "Second", link |-> "http://a/2",
                      pubDate |-> "Thu, 01 Jan 1970 00:00:01 GMT"],
                     [title |-> "First", link |-> "/1", guid |-> "http://a/1"] >>]]]

RssOrphan ==
    [rss |-> [channel |->
        [title |-> "Orphan",
         item |-> << [title |-> "First"] >>]]]

AtomNews ==
    [feed |->
        [title |-> "News", subtitle |-> "all of it", id |-> "tag:a",
         link |-> << [rel |-> "alternate", href |-> "http://a/"],
                     [rel |-> "self", href |-> "http://a/atom"] >>,
         updated |-> "1970-01-01T00:00:02Z",
         entry |-> << [title |-> "First", id |-> "tag:a:1",
                       link |-> << [rel |-> "self", href |-> "http://a/atom"],
                                   [rel |-> "alternate", href |-> "HTTP://A/1"] >>,
                       published |-> "1970-01-01T00:00:01Z",
                       updated |-> "1970-01-01T01:00:02+01:00"],
                      [title |-> "Second", id |-> "tag:a:2",
                       updated |-> "1970-01-01T00:00:01Z"] >>]]

Html == [html |-> [body |-> "text"]]

\* An Atom feed whose one link element carries no rel="self".
AtomPlain ==
    [feed |->
        [title |-> "Plain", id |-> "tag:b",
         link |-> << [rel |-> "alternate", href |-> "http://a/"] >>,
         entry |-> << [title |-> "Only", id |-> "tag:b:1",
                       updated |-> "1970-01-01T00:00:01Z"] >>]]

\* The texts: whether the XML is well formed (xmlParser.parse(text, true)
\* throws when it is not) and what it parses to.
Docs ==
    << [valid |-> TRUE, xml |-> RssNews],
       [valid |-> TRUE, xml |-> RssNewsLater],
       [valid |-> TRUE, xml |-> RssBadItem],
       [valid |-> TRUE, xml |-> RssOrphan],
       [valid |-> TRUE, xml |-> AtomNews],
       [valid |-> TRUE, xml |-> Html],
       [valid |-> TRUE, xml |-> AtomPlain],
       [valid |-> FALSE] >>

TextOf(xml) == CHOOSE text \in 1..Len(Docs) : Docs[text].valid /\ Docs[text].xml = xml

Malformed == CHOOSE text \in 1..Len(Docs) : ~Docs[text].valid

\* The texts each url answers with at one time or another: the first is an
\* RSS site, the second an Atom site that has also sent an HTML page and a
\* truncated document.
Served(i) ==
    IF i = 1
    THEN {TextOf(RssNews), TextOf(RssNewsLater), TextOf(RssBadItem), TextOf(RssOrphan)}
    ELSE {TextOf(AtomNews), TextOf(Html), Malformed}

\* ------------------------------------- parse and remap (lines 95-244)
\* One fetch result: Pending while the promise is unsettled, Failed for the
\* "" the catch returns, otherwise the index in Docs of the text received.
Pending == 0 - 1
Failed == 0

DownloadedUnfiltered(raw) == [i \in 1..Len(raw) |-> [url |-> urls[i], text |-> raw[i]]]

\* rawFeeds.filter(({ url, text }) => text && text.length !== 0)
Downloaded(raw) == SelectSeq([i \in 1..Len(raw) |-> [url |-> urls[i], text |-> raw[i]]],
                             LAMBDA r : r.text # Failed)

\* The empty text is not well formed either.
ParseFeed(url, text, now) ==
    LET doc == Docs[text]
    IN  IF text = Failed THEN DefaultFeed(now)
        ELSE IF ~doc.valid THEN DefaultFeed(now)
        ELSE IF Has(doc.xml, "rss")
             THEN IF Has(doc.xml.rss, "channel")
                  THEN ParseRss(doc.xml.rss.channel, url, now)
                  ELSE DefaultFeed(now)
        ELSE IF Has(doc.xml, "feed") THEN ParseAtom(doc.xml.feed, url, now)
        ELSE DefaultFeed(now)

NewFeeds(raw, now) ==
    LET got == Downloaded(raw)
    IN  [i \in 1..Len(got) |-> ParseFeed(got[i].url, got[i].text, now)]

\* ----------------------------------------------- the merge (lines 249-272)
StoresArticleOrEqual(articles, newArticle) ==
    \/ ~MapHas(articles, newArticle.id)
    \/ DateGreater(newArticle.updated, MapGet(articles, newArticle.id).updated)
    \/ newArticle.updated = MapGet(articles, newArticle.id).updated

\* Whether the incoming article is stored: none with its id exists, or the
\* one that exists is older.
StoresArticle(articles, newArticle) ==
    \/ ~MapHas(articles, newArticle.id)
    \/ DateGreater(newArticle.updated, MapGet(articles, newArticle.id).updated)

RECURSIVE MergeArticles(_, _)
MergeArticles(articles, newArticles) ==
    IF newArticles = <<>> THEN articles
    ELSE MergeArticles(
            IF StoresArticle(articles, Head(newArticles))
            THEN MapSet(articles, Head(newArticles).id, Head(newArticles))
            ELSE articles,
            Tail(newArticles))

FeedForResetting(store, newFeed) ==
    MapSet(store, newFeed.id, [newFeed EXCEPT !.articles = <<>>])

FeedForOverwriting(store, newFeed) ==
    IF MapHas(store, newFeed.id)
    THEN MapSet(store, newFeed.id,
                [newFeed EXCEPT !.articles = MapGet(store, newFeed.id).articles])
    ELSE MapSet(store, newFeed.id, [newFeed EXCEPT !.articles = <<>>])

\* feeds.get(newFeed.id), inserting the feed with no articles when it is new.
FeedFor(store, newFeed) ==
    IF MapHas(store, newFeed.id) THEN store
    ELSE MapSet(store, newFeed.id, [newFeed EXCEPT !.articles = <<>>])

MergeFeed(store, newFeed) ==
    LET inserted == FeedFor(store, newFeed)
        at == MapIndex(inserted, newFeed.id)
    IN  [inserted EXCEPT ![at][2].articles =
            MergeArticles(inserted[at][2].articles, newFeed.articles)]

RECURSIVE MergeFeeds(_, _)
MergeFeeds(store, newFeeds) ==
    IF newFeeds = <<>> THEN store
    ELSE MergeFeeds(MergeFeed(store, Head(newFeeds)), Tail(newFeeds))

\* ------------------------------- serialize (lines 277-287), load (27-54)
\* JSON.stringify drops an undefined property and reading a dropped property
\* gives undefined, so UNDEF stands for both.
ArticleToJSON(article) ==
    [title |-> article.title, link |-> article.link, id |-> article.id,
     published |-> DateToJSON(article.published),
     updated |-> DateToJSON(article.updated)]

Serialize(store) ==
    [i \in 1..Len(store) |->
        LET feed == store[i][2]
        IN  [title |-> feed.title, description |-> feed.description,
             link |-> feed.link, id |-> feed.id,
             articles |-> [j \in 1..Len(feed.articles) |->
                              ArticleToJSON(feed.articles[j][2])],
             updated |-> DateToJSON(feed.updated)]]

LoadArticleRelinked(rawArticle) ==
    [title |-> rawArticle.title, link |-> rawArticle.link, id |-> rawArticle.link,
     published |-> DateFromJSON(rawArticle.published),
     updated |-> DateFromJSON(rawArticle.published)]

LoadArticle(rawArticle) ==
    [title |-> rawArticle.title, link |-> rawArticle.link, id |-> rawArticle.id,
     published |-> DateFromJSON(rawArticle.published),
     updated |-> DateFromJSON(rawArticle.published)]

RECURSIVE LoadArticles(_, _)
LoadArticles(articles, rawArticles) ==
    IF rawArticles = <<>> THEN articles
    ELSE LoadArticles(MapSet(articles, Head(rawArticles).id, LoadArticle(Head(rawArticles))),
                      Tail(rawArticles))

RECURSIVE LoadFeeds(_, _)
LoadFeeds(store, rawFeedList) ==
    IF rawFeedList = <<>> THEN store
    ELSE LET rawFeed == Head(rawFeedList)
         IN  LoadFeeds(
                MapSet(store, rawFeed.id,
                       [title |-> rawFeed.title, description |-> rawFeed.description,
                        link |-> rawFeed.link, id |-> rawFeed.id,
                        articles |-> LoadArticles(<<>>, rawFeed.articles),
                        updated |-> DateFromJSON(rawFeed.updated)]),
                Tail(rawFeedList))

\* ------------------------------------------------------------------- state
VARIABLES
    feeds,      \* the Store: Map from feed id to feed
    disk,       \* the array of feeds in the file config.output
    now,        \* what new Date() last returned
    pc,         \* each invocation of updateFeeds: idle, downloading, or over
    rawFeeds,   \* each invocation's fetch results, one per url
    started,    \* how many invocations of updateFeeds there have been
    timer,      \* whether setInterval has been called in this process
    lastRaw,    \* the fetch results of the invocation that last updated the Store
    unchanged   \* the urls for which it fetched the document the one before it fetched

vars == <<feeds, disk, now, pc, rawFeeds, started, timer, lastRaw, unchanged>>

Cycles == 1..MaxCycles

Unsettled == [i \in 1..Len(urls) |-> Pending]

\* The file is absent at first: the Store is empty, and line 293 has called
\* updateFeeds, which has issued its fetches.
Init ==
    /\ feeds = <<>>
    /\ disk = <<>>
    /\ now = 1
    /\ pc = [c \in Cycles |-> IF c = 1 THEN "downloading" ELSE "idle"]
    /\ rawFeeds = [c \in Cycles |-> Unsettled]
    /\ started = 1
    /\ timer = FALSE
    /\ lastRaw = Unsettled
    /\ unchanged = {}

\* fetch(url) rejects or answers with a status that is not ok: the catch
\* logs and returns "" (lines 63-73).
FetchFailed(c, i) ==
    /\ pc[c] = "downloading"
    /\ rawFeeds[c][i] = Pending
    /\ rawFeeds' = [rawFeeds EXCEPT ![c][i] = Failed]
    /\ UNCHANGED <<feeds, disk, now, pc, started, timer, lastRaw, unchanged>>

\* fetch(url) answers with a document (lines 67-69).
FetchOk(c, i) ==
    /\ pc[c] = "downloading"
    /\ rawFeeds[c][i] = Pending
    /\ \E text \in Served(i) : rawFeeds' = [rawFeeds EXCEPT ![c][i] = text]
    /\ UNCHANGED <<feeds, disk, now, pc, started, timer, lastRaw, unchanged>>

UpdateUnsettled(c) ==
    /\ pc[c] = "downloading"
    /\ \E i \in 1..Len(urls) : rawFeeds[c][i] # Pending
    /\ \E t \in now..MaxTime :
          /\ now' = t
          /\ feeds' = MergeFeeds(feeds,
                NewFeeds([i \in 1..Len(urls) |->
                             IF rawFeeds[c][i] = Pending THEN Failed ELSE rawFeeds[c][i]], t))
    /\ disk' = Serialize(feeds')
    /\ pc' = [pc EXCEPT ![c] = "over"]
    /\ timer' = TRUE
    /\ lastRaw' = rawFeeds[c]
    /\ unchanged' = {}
    /\ rawFeeds' = [rawFeeds EXCEPT ![c] = Unsettled]
    /\ UNCHANGED started

\* The rest of updateFeeds once Promise.all has settled: parse, merge,
\* serialize (lines 76-291), at a time t that is not before the last one;
\* after the first invocation of a process, line 294 sets the interval timer.
Update(c) ==
    /\ pc[c] = "downloading"
    /\ \A i \in 1..Len(urls) : rawFeeds[c][i] # Pending
    /\ \E t \in now..MaxTime :
          /\ now' = t
          /\ feeds' = MergeFeeds(feeds, NewFeeds(rawFeeds[c], t))
    /\ disk' = Serialize(feeds')
    /\ pc' = [pc EXCEPT ![c] = "over"]
    /\ timer' = TRUE
    /\ lastRaw' = rawFeeds[c]
    /\ unchanged' = {i \in 1..Len(urls) : rawFeeds[c][i] # Failed /\ rawFeeds[c][i] = lastRaw[i]}
    /\ rawFeeds' = [rawFeeds EXCEPT ![c] = Unsettled]
    /\ UNCHANGED started

\* The interval timer calls updateFeeds (line 294).
Interval ==
    /\ timer
    /\ started + 1 \in DOMAIN pc
    /\ started' = started + 1
    /\ pc' = [pc EXCEPT ![started + 1] = "downloading"]
    /\ UNCHANGED <<feeds, disk, now, rawFeeds, timer, lastRaw, unchanged>>

\* The process ends and is started again: the Store is loaded from the file
\* (lines 27-54) and line 293 calls updateFeeds.
Restart ==
    /\ started < MaxCycles
    /\ feeds' = LoadFeeds(<<>>, disk)
    /\ started' = started + 1
    /\ pc' = [c \in Cycles |-> IF c = started + 1 THEN "downloading"
                               ELSE IF pc[c] = "downloading" THEN "over"
                               ELSE pc[c]]
    /\ rawFeeds' = [c \in Cycles |-> Unsettled]
    /\ timer' = FALSE
    /\ UNCHANGED <<disk, now, lastRaw, unchanged>>

Next ==
    \/ \E c \in Cycles, i \in 1..Len(urls) : FetchFailed(c, i)
    \/ \E c \in Cycles, i \in 1..Len(urls) : FetchOk(c, i)
    \/ \E c \in Cycles : Update(c)
    \/ Interval
    \/ Restart

Spec == Init /\ [][Next]_vars

\* ------------------------------------------- a process that stays up
\* The first invocation is awaited before the timer is set (line 293), so
\* two invocations are in flight together only from the third on: here the
\* process is never started again and the timer calls updateFeeds once more
\* than above, while each url answers with a feed: the first with RssNews,
\* the second with one of two Atom feeds.
OverlapCycles == 1..(MaxCycles + 1)

Steady(i) == IF i = 1 THEN {TextOf(RssNews)} ELSE {TextOf(AtomNews), TextOf(AtomPlain)}

InitSteady ==
    /\ feeds = <<>>
    /\ disk = <<>>
    /\ now = 1
    /\ pc = [c \in OverlapCycles |-> IF c = 1 THEN "downloading" ELSE "idle"]
    /\ rawFeeds = [c \in OverlapCycles |-> Unsettled]
    /\ started = 1
    /\ timer = FALSE
    /\ lastRaw = Unsettled
    /\ unchanged = {}

\* fetch(url) answers with such a feed (lines 67-69).
FetchSteady(c, i) ==
    /\ pc[c] = "downloading"
    /\ rawFeeds[c][i] = Pending
    /\ \E text \in Steady(i) : rawFeeds' = [rawFeeds EXCEPT ![c][i] = text]
    /\ UNCHANGED <<feeds, disk, now, pc, started, timer, lastRaw, unchanged>>

NextSteady ==
    \/ \E c \in OverlapCycles, i \in 1..Len(urls) : FetchFailed(c, i)
    \/ \E c \in OverlapCycles, i \in 1..Len(urls) : FetchSteady(c, i)
    \/ \E c \in OverlapCycles : Update(c)
    \/ Interval

SpecSteady == InitSteady /\ [][NextSteady]_vars

\* ---------------------------------------------------------------- claims
\* How many entries of a Map have the key.
Entries(m, k) == Cardinality({i \in 1..Len(m) : m[i][1] = k})

\* The step is the rest of invocation c of updateFeeds.
Updates(c) == pc[c] = "downloading" /\ pc'[c] = "over" /\ timer'

\* The step starts the process again.
Restarts == started' = started + 1 /\ ~timer'

\* No invocation holds a fetch result.  Every Store the program reaches is
\* reached in such a state, since the fetches of the invocations that have
\* not updated it yet can all settle later.
Quiet == \A c \in Cycles : rawFeeds[c] = Unsettled

\* C1: merging a normalized feed into the Store a second time changes nothing,
\* for every Store the program reaches and every feed that a document of a
\* url remaps to from now on (repeated article ids, unset ids, equal and
\* invalid timestamps among them).
MergeIdempotent ==
    Quiet =>
        \A i \in 1..Len(urls) : \A text \in Served(i) : \A t \in now..MaxTime :
            \A F \in {ParseFeed(urls[i], text, t)} :
                \A once \in {MergeFeed(feeds, F)} : MergeFeed(once, F) = once

\* The Store holds the feed that the first url's RssNewsLater, two of whose
\* items share an id and a timestamp, and RssOrphan, whose item has no id,
\* were merged into.
MergedRepeatedIds ==
    /\ MapHas(feeds, "http://a/")
    /\ MapHas(MapGet(feeds, "http://a/").articles, "http://a/3")
    /\ Entries(MapGet(feeds, "http://a/").articles, "http://a/1") = 1
    /\ MapHas(feeds, urls[1])
    /\ MapHas(MapGet(feeds, urls[1]).articles, UNDEF)

\* What the claim of C2 leaves of article a once the articles bs came in.
RECURSIVE NewestOf(_, _)
NewestOf(a, bs) ==
    IF bs = <<>> THEN a
    ELSE NewestOf(IF DateGreater(Head(bs).updated, a.updated) THEN Head(bs) ELSE a, Tail(bs))

\* The articles with id x that the feeds with id k bring.
RECURSIVE Incoming(_, _, _)
Incoming(newFeeds, k, x) ==
    IF newFeeds = <<>> THEN <<>>
    ELSE (IF Head(newFeeds).id = k
          THEN SelectSeq(Head(newFeeds).articles, LAMBDA b : b.id = x)
          ELSE <<>>) \o Incoming(Tail(newFeeds), k, x)

\* C2: an update replaces a stored article by an incoming one with its id
\* exactly when the incoming one's updated is strictly greater, and keeps the
\* stored article as it is otherwise.
MonotonicReplacement ==
    [][\A c \in Cycles : Updates(c) =>
        \A newFeeds \in {NewFeeds(rawFeeds[c], now')} :
            \A i \in 1..Len(feeds) : \A j \in 1..Len(feeds[i][2].articles) :
                LET k == feeds[i][1]
                    x == feeds[i][2].articles[j][1]
                    a == feeds[i][2].articles[j][2]
                IN  /\ MapHas(feeds', k)
                    /\ MapHas(MapGet(feeds', k).articles, x)
                    /\ MapGet(MapGet(feeds', k).articles, x)
                          = NewestOf(a, Incoming(newFeeds, k, x))]_vars

\* The feed first came from RssNews (it kept that title), and its article of
\* time 1 has been replaced by the one of time 2 that RssNewsLater brought.
ArticleReplaced ==
    \E i \in 1..Len(feeds) :
        /\ feeds[i][1] = "http://a/"
        /\ feeds[i][2].title = "News"
        /\ MapHas(feeds[i][2].articles, "http://a/1")
        /\ MapGet(feeds[i][2].articles, "http://a/1").updated = 2

\* C3: no step removes a feed id from the Store or an article id from a feed,
\* whatever failed to download or to parse.
NoDeletion ==
    [][\A i \in 1..Len(feeds) :
          /\ MapHas(feeds', feeds[i][1])
          /\ \A j \in 1..Len(feeds[i][2].articles) :
                MapHas(MapGet(feeds', feeds[i][1]).articles, feeds[i][2].articles[j][1])]_vars

\* The last update had a failed download and a document that does not
\* parse, and the Store holds articles.
KeptThroughFailures ==
    /\ lastRaw[1] = Failed
    /\ lastRaw[2] = Malformed
    /\ \E i \in 1..Len(feeds) : Len(feeds[i][2].articles) > 1

\* C4: an update leaves the title, description, link and updated of every
\* feed that was in the Store as they were.
MetadataKept ==
    [][\A c \in Cycles : Updates(c) =>
        \A i \in 1..Len(feeds) :
            LET old == feeds[i][2]
                new == MapGet(feeds', feeds[i][1])
            IN  /\ MapHas(feeds', feeds[i][1])
                /\ new.title = old.title
                /\ new.description = old.description
                /\ new.link = old.link
                /\ new.updated = old.updated]_vars

\* RssNewsLater, titled "Olds", was merged into the feed that RssNews made.
OtherMetadataMerged ==
    /\ \E i \in 1..Len(urls) : lastRaw[i] = TextOf(RssNewsLater)
    /\ \E i \in 1..Len(feeds) :
          /\ feeds[i][1] = "http://a/"
          /\ feeds[i][2].title = "News"
          /\ feeds[i][2].description = "all of it"

\* The documents of an update whose root is rss or feed, and those that
\* are not well formed.
KnownRoot(raw) ==
    SelectSeq(Downloaded(raw),
              LAMBDA r : ~Docs[r.text].valid
                         \/ Has(Docs[r.text].xml, "rss") \/ Has(Docs[r.text].xml, "feed"))

\* C5: a document whose root is neither rss nor feed remaps to no feed, so an
\* update leaves the Store as the other documents alone make it.
UnknownRootTolerance ==
    [][\A c \in Cycles : Updates(c) =>
        LET known == KnownRoot(rawFeeds[c])
        IN  feeds' = MergeFeeds(feeds,
                [i \in 1..Len(known) |-> ParseFeed(known[i].url, known[i].text, now')])]_vars

\* The urls of an update whose download did not fail, in order.
Succeeded(raw) == SelectSeq([i \in 1..Len(urls) |-> i], LAMBDA i : raw[i] # Failed)

\* C6: an update whose download of some url failed changes the Store as the
\* other urls alone change it: each of their feeds and articles is in the
\* Store afterwards, and the Store is saved.
PerUrlIsolation ==
    [][\A c \in Cycles : Updates(c) =>
        /\ LET ok == Succeeded(rawFeeds[c])
           IN  feeds' = MergeFeeds(feeds,
                   [j \in 1..Len(ok) |-> ParseFeed(urls[ok[j]], rawFeeds[c][ok[j]], now')])
        /\ disk' = Serialize(feeds')
        /\ \A i \in 1..Len(urls) : rawFeeds[c][i] # Failed =>
              \A F \in {ParseFeed(urls[i], rawFeeds[c][i], now')} :
                  /\ MapHas(feeds', F.id)
                  /\ \A n \in 1..Len(F.articles) :
                        MapHas(MapGet(feeds', F.id).articles, F.articles[n].id)]_vars

\* The second url failed, RssNews from the first was merged and saved, and
\* nothing else is in the Store.
OthersMergedDespiteFailure ==
    /\ lastRaw[1] = TextOf(RssNews)
    /\ lastRaw[2] = Failed
    /\ Len(feeds) = 1
    /\ MapHas(feeds, "http://a/")
    /\ Len(MapGet(feeds, "http://a/").articles) = 2
    /\ disk = Serialize(feeds)

\* C7: after an update, the feed of every RSS document holds an article for
\* each of its items, also when the link of another item is no URL.
MalformedItemTolerance ==
    [][\A c \in Cycles : Updates(c) =>
        \A i \in 1..Len(urls) :
            LET text == rawFeeds[c][i]
                rss == Docs[text].xml.rss.channel
                k == RssFeedId(rss, urls[i])
            IN  (/\ text # Failed
                 /\ Docs[text].valid
                 /\ Has(Docs[text].xml, "rss")
                 /\ Has(rss, "item")) =>
                    /\ MapHas(feeds', k)
                    /\ \A n \in 1..Len(rss.item) :
                          MapHas(MapGet(feeds', k).articles, RssItemId(rss.item[n]))]_vars

\* C8: no feed of the Store holds an article whose id and link are both unset.
DropPolicy ==
    \A i \in 1..Len(feeds) : \A j \in 1..Len(feeds[i][2].articles) :
        LET article == feeds[i][2].articles[j][2]
        IN  ~(article.id = UNDEF /\ article.link = UNDEF)

\* Every timestamp of the Store is an instant (no Invalid Date).
AllInstants(store) ==
    \A i \in 1..Len(store) :
        /\ store[i][2].updated # NaN
        /\ \A j \in 1..Len(store[i][2].articles) :
              /\ store[i][2].articles[j][2].published # NaN
              /\ store[i][2].articles[j][2].updated # NaN

\* C9: a process that starts with the file the last update wrote loads the
\* Store that update left, each timestamp of it the same instant.
RoundTrip ==
    [][(/\ Restarts
        /\ disk = Serialize(feeds)
        /\ AllInstants(feeds)) => feeds' = feeds]_vars

\* C10: when an update fetched from a url the document the update before it
\* fetched, the Store holds one entry for the feed's id, and in it one entry
\* for each article id of the document.
UnchangedRefetch ==
    \A i \in unchanged :
        \A F \in {ParseFeed(urls[i], lastRaw[i], now)} :
            /\ Entries(feeds, F.id) = 1
            /\ \A n \in 1..Len(F.articles) :
                  Entries(MapGet(feeds, F.id).articles, F.articles[n].id) = 1

\* RssNews, whose second item has no date, was fetched twice in a row, and
\* that item's article carries the time of the later update.
RefetchedUndated ==
    /\ now > 1
    /\ \E i \in unchanged : lastRaw[i] = TextOf(RssNews)
    /\ MapHas(feeds, "http://a/")
    /\ Len(MapGet(feeds, "http://a/").articles) = 2
    /\ MapGet(MapGet(feeds, "http://a/").articles, "http://a/2").updated = now

\* The text is a well-formed document whose root is feed.
IsAtom(text) == text # Failed /\ Docs[text].valid /\ Has(Docs[text].xml, "feed")

\* C11: the article of every Atom entry carries the entry's updated as its
\* updated when the entry has one, its own published otherwise, and the feed
\* has an article for each entry (for feeds whose own link resolves).
EntryUpdatedResolution ==
    [][\A c \in DOMAIN pc : Updates(c) =>
        \A i \in 1..Len(urls) :
            (/\ IsAtom(rawFeeds[c][i])
             /\ Has(Docs[rawFeeds[c][i]].xml.feed, "entry")
             /\ ~AtomLinkThrows(Docs[rawFeeds[c][i]].xml.feed, urls[i])) =>
                \A F \in {ParseFeed(urls[i], rawFeeds[c][i], now')} :
                    LET entry == Docs[rawFeeds[c][i]].xml.feed.entry
                    IN  /\ Len(F.articles) = Len(entry)
                        /\ \A n \in 1..Len(entry) :
                              F.articles[n].updated =
                                  IF Has(entry[n], "updated") THEN NewDate(entry[n].updated)
                                  ELSE F.articles[n].published]_vars

\* What the claim of C12 makes the link of an Atom feed fetched from url.
SelfOrSource(atom, url) ==
    IF Has(atom, "link") /\ AtomHasSelf(atom)
    THEN atom.link[CHOOSE i \in 1..Len(atom.link) : atom.link[i].rel = "self"].href
    ELSE url

\* C12: the feed of every Atom document has the href of its rel="self" link
\* as its link, the url it was fetched from when no link element is one, and
\* in both cases its own id and an article for each entry.
FeedLinkResolution ==
    [][\A c \in DOMAIN pc : Updates(c) =>
        \A i \in 1..Len(urls) :
            IsAtom(rawFeeds[c][i]) =>
                \A F \in {ParseFeed(urls[i], rawFeeds[c][i], now')} :
                    LET atom == Docs[rawFeeds[c][i]].xml.feed
                    IN  /\ F.link = SelfOrSource(atom, urls[i])
                        /\ Has(atom, "id") => F.id = atom.id
                        /\ Has(atom, "entry") => Len(F.articles) = Len(atom.entry)]_vars

\* C13: the Store and the file change only in the step that is the rest of
\* one invocation of updateFeeds; that step is taken once every fetch of the
\* invocation has settled, does the whole merge and the save, and leaves the
\* other invocations, some of them downloading, where they are.
SequentialMerge ==
    [][/\ (feeds' # feeds \/ disk' # disk) => \E c \in DOMAIN pc : Updates(c)
       /\ \A c \in DOMAIN pc : Updates(c) =>
             /\ \A i \in 1..Len(urls) : rawFeeds[c][i] # Pending
             /\ feeds' = MergeFeeds(feeds, NewFeeds(rawFeeds[c], now'))
             /\ disk' = Serialize(feeds')
             /\ \A d \in DOMAIN pc \ {c} :
                   pc'[d] = pc[d] /\ rawFeeds'[d] = rawFeeds[d]]_vars

\* An invocation that the timer started while an earlier one was downloading
\* has merged and saved; the earlier one, a fetch of which has settled, is
\* downloading still.
MergedWhileOtherDownloads ==
    /\ timer
    /\ feeds # <<>>
    /\ disk = Serialize(feeds)
    /\ \E c, d \in DOMAIN pc :
          /\ c < d
          /\ pc[c] = "downloading"
          /\ \E i \in 1..Len(urls) : rawFeeds[c][i] # Pending
          /\ pc[d] = "over"

\* C14: every feed of the Store is the one entry under its id, and every
\* article of a feed the one entry under its id.
KeyConsistency ==
    \A i \in 1..Len(feeds) :
        /\ feeds[i][1] = feeds[i][2].id
        /\ Entries(feeds, feeds[i][1]) = 1
        /\ \A j \in 1..Len(feeds[i][2].articles) :
              /\ feeds[i][2].articles[j][1] = feeds[i][2].articles[j][2].id
              /\ Entries(feeds[i][2].articles, feeds[i][2].articles[j][1]) = 1

\* The process was started again and has loaded the Store that an update
\* saved: the RSS and the Atom feed, two articles each.
LoadedBothFeeds ==
    /\ started > 1
    /\ ~timer
    /\ Len(feeds) = 2
    /\ MapHas(feeds, "http://a/")
    /\ Len(MapGet(feeds, "http://a/").articles) = 2
    /\ MapHas(feeds, "tag:a")
    /\ Len(MapGet(feeds, "tag:a").articles) = 2

====
